---- MODULE Spec2Model ----
(***************************************************************************)
(* Model of src/main.py: the FastAPI gateway over the document store.      *)
(*                                                                         *)
(* Strings are sequences of code points, so that str(), ObjectId(...) and  *)
(* slicing are computed and not assumed.  A value held by a document is a  *)
(* tagged record [ty, v]: ty = "str" for a Python str, ty = "ObjectId" for *)
(* a bson ObjectId whose v is its 12 bytes.  A document (Python dict) is a *)
(* function from field names to values; None and {} are the function with  *)
(* the empty domain.                                                       *)
(***************************************************************************)
EXTENDS Integers, Sequences, FiniteSets, TLC

VARIABLES conn, env, store, created, req, resp, call, probe, report

vars == <<conn, env, store, created, req, resp, call, probe, report>>

(* ------------------------------ bounds -------------------------------- *)
\* documents held by the store, over both collections
MaxDocs == 2
\* longest error message raised by the store
MaxMsgLen == 101
\* most collection names the store reports
MaxColls == 11

(* ------------------------- program constants -------------------------- *)
OidBytes == 12
LimitDefault == 50
LimitMin == 1
LimitMax == 200
TruncLen == 100
MaxShown == 10

Min(a, b) == IF a < b THEN a ELSE b
Max(a, b) == IF a > b THEN a ELSE b

(* ------------------------------ values -------------------------------- *)
Str(s) == [ty |-> "str", v |-> s]
Oid(b) == [ty |-> "ObjectId", v |-> b]

None == [f \in {} |-> Str(<<>>)]

\* s[:n] of a Python str
Slice(s, n) == SubSeq(s, 1, Min(n, Len(s)))

\* a message of n characters: a..z repeated
Text(n) == [i \in 1..n |-> 97 + (i % 26)]

(* ----------------------------- bson.ObjectId -------------------------- *)
HexDigit(n) == IF n < 10 THEN 48 + n ELSE 87 + n

\* str(ObjectId): two lower-case hex digits per byte
Hex(b) ==
    [i \in 1..(2 * Len(b)) |->
        HexDigit(IF i % 2 = 1 THEN b[(i + 1) \div 2] \div 16
                              ELSE b[i \div 2] % 16)]

IsHexChar(c) == c \in (48..57) \cup (97..102) \cup (65..70)

HexVal(c) ==
    IF c \in 48..57 THEN c - 48
    ELSE IF c \in 97..102 THEN c - 87
    ELSE c - 55

\* ObjectId.is_valid(s) for a str s: 24 hex digits of either case
is_valid(s) ==
    /\ Len(s) = 2 * OidBytes
    /\ \A i \in 1..Len(s) : IsHexChar(s[i])

\* ObjectId(s) for a valid s
ObjectId(s) ==
    Oid([i \in 1..OidBytes |-> 16 * HexVal(s[2 * i - 1]) + HexVal(s[2 * i])])

(* ------------------------- serialization ------------------------------ *)
\* main.py:34  str(obj_id); the except branch is dead for str and ObjectId
serialize_id(obj_id) ==
    IF obj_id.ty = "ObjectId" THEN Str(Hex(obj_id.v)) ELSE obj_id

\* variant: d["_id"] read, not popped
serialize_doc_keep_id(doc) ==
    IF DOMAIN doc = {} THEN doc
    ELSE IF "_id" \in DOMAIN doc
         THEN [f \in DOMAIN doc \cup {"id"} |->
                 IF f = "id" THEN serialize_id(doc["_id"]) ELSE doc[f]]
         ELSE doc

\* main.py:40
serialize_doc(doc) ==
    IF DOMAIN doc = {} THEN doc
    ELSE IF "_id" \in DOMAIN doc
         THEN [f \in (DOMAIN doc \ {"_id"}) \cup {"id"} |->
                 IF f = "id" THEN serialize_id(doc["_id"]) ELSE doc[f]]
         ELSE doc

(* ------------------------ inputs of the requests ---------------------- *)
Kinds == {"user", "product"}

Other(kind) == IF kind = "user" THEN "product" ELSE "user"

\* validated records of schemas.User and schemas.Product
UserRecords ==
    { ("name" :> Str(<<65, 108>>)) @@ ("email" :> Str(<<97, 64, 120>>)),
      ("name" :> Str(<<66, 111>>)) @@ ("email" :> Str(<<98, 64, 120>>)) }

ProductRecords ==
    { ("title" :> Str(<<112, 101, 110>>)) @@ ("category" :> Str(<<65>>)) }

Records(kind) == IF kind = "user" THEN UserRecords ELSE ProductRecords

\* the identifiers the store draws from when it assigns one
MkOid(n) == [i \in 1..OidBytes |-> IF i = 1 THEN 171 ELSE IF i = OidBytes THEN n ELSE 0]

OidPool == { MkOid(1), MkOid(2) }

Upper(s) == [i \in 1..Len(s) |-> IF s[i] \in 97..122 THEN s[i] - 32 ELSE s[i]]

\* "not-an-id", 23 hex digits, 24 characters with a 'g'
Malformed ==
    { <<110, 111, 116, 45, 97, 110, 45, 105, 100>>,
      SubSeq(Hex(MkOid(1)), 1, 2 * OidBytes - 1),
      [Hex(MkOid(1)) EXCEPT ![3] = 103] }

\* path parameters: the assignable ids, one in upper case, one never assigned, malformed ones
IdStrings ==
    { Hex(o) : o \in OidPool } \cup { Upper(Hex(MkOid(1))), Hex(MkOid(255)) } \cup Malformed

Limits == {-3, 0, 1, 2, 200, 201}

ShortMsgLen == 3

NoFault == [cls |-> "none", msg |-> <<>>]

\* what a store call raises: nothing, a PyMongoError, or another Exception
Faults ==
    { NoFault,
      [cls |-> "PyMongoError", msg |-> Text(ShortMsgLen)],
      [cls |-> "PyMongoError", msg |-> Text(MaxMsgLen)],
      [cls |-> "Exception", msg |-> Text(MaxMsgLen)] }

\* os.getenv of a variable: unset (None), set to "", set to a non-empty string
EnvValues ==
    { [set |-> FALSE, v |-> <<>>], [set |-> TRUE, v |-> <<>>], [set |-> TRUE, v |-> <<109, 100, 98>>] }

NoEnv == [url |-> [set |-> FALSE, v |-> <<>>], name |-> [set |-> FALSE, v |-> <<>>]]

(* ------------------------------ responses ----------------------------- *)
NoDetail == [lit |-> "", msg |-> <<>>]

Return(st, d) == [status |-> st, doc |-> d, docs |-> <<>>, detail |-> NoDetail]

ReturnList(l) == [status |-> 200, doc |-> None, docs |-> l, detail |-> NoDetail]

\* raise HTTPException(status_code=st, detail=...): lit is a literal detail, msg is str(e)
HTTPException(st, lit, msg) ==
    [status |-> st, doc |-> None, docs |-> <<>>, detail |-> [lit |-> lit, msg |-> msg]]

\* an exception no except clause of the handler catches: the framework answers 500
Unhandled == HTTPException(500, "Internal Server Error", <<>>)

NoResp == [status |-> 0, doc |-> None, docs |-> <<>>, detail |-> NoDetail]

NoReq ==
    [op |-> "none", kind |-> "none", given |-> FALSE, limit |-> 0, id |-> <<>>,
     record |-> None, fault |-> NoFault]

NoCall == [op |-> "none", kind |-> "none", limit |-> 0]

(* --------------------------- the document store ----------------------- *)
Count == Len(store["user"]) + Len(store["product"])

Ids(kind) == { store[kind][i]["_id"].v : i \in 1..Len(store[kind]) }

\* to_storable: the record's fields one-to-one
to_storable(record) == record

\* insert_one: the document with its store-assigned identifier, appended
insert(kind, record, o) ==
    [store EXCEPT ![kind] = Append(@, to_storable(record) @@ ("_id" :> Oid(o)))]

\* create_document returns the encoded identifier of the new document
inserted_id(o) == Hex(o)

\* find(filter = {}).limit(limit) in insertion order
get_documents(kind, limit) == SubSeq(store[kind], 1, Min(limit, Len(store[kind])))

\* find_one({"_id": oid}): the document of the collection with that identifier, or None
find_one(kind, oid) ==
    LET hits == { i \in 1..Len(store[kind]) : store[kind][i]["_id"] = oid }
    IN  IF hits = {} THEN None
        ELSE store[kind][CHOOSE i \in hits : \A j \in hits : i <= j]

(* ------------------------------ handlers ------------------------------ *)
\* variant: min(limit, 200)
ClampLimit_no_floor(limit) == Min(limit, LimitMax)

\* main.py:128  min(max(limit, 1), 200)
ClampLimit(limit) == Min(Max(limit, LimitMin), LimitMax)

\* main.py:117  the response of POST, given what create_document did
create_response(fault, new_id) ==
    IF fault.cls = "none"
    THEN Return(201, "id" :> Str(new_id))
    ELSE HTTPException(500, "", fault.msg)

\* variant: the route declared without status_code=201
create_user_default_status(fault, new_id) ==
    IF fault.cls = "none"
    THEN Return(200, "id" :> Str(new_id))
    ELSE HTTPException(500, "", fault.msg)

create_user(fault, new_id) == create_response(fault, new_id)

\* variant: detail=str(e)[:100], as the health check does
create_product_truncating(fault, new_id) ==
    IF fault.cls = "none"
    THEN Return(201, "id" :> Str(new_id))
    ELSE HTTPException(500, "", Slice(fault.msg, TruncLen))

create_product(fault, new_id) == create_response(fault, new_id)

\* main.py:125  get_documents is called with the clamped limit; only PyMongoError is caught
list_response(kind, limit, fault) ==
    IF fault.cls = "none"
    THEN LET docs == get_documents(kind, ClampLimit(limit))
         IN  ReturnList([i \in 1..Len(docs) |-> serialize_doc(docs[i])])
    ELSE IF fault.cls = "PyMongoError"
         THEN HTTPException(500, "", fault.msg)
         ELSE Unhandled

\* variant: return docs, without serialize_doc
list_users_raw(limit, fault) ==
    IF fault.cls = "none"
    THEN ReturnList(get_documents("user", ClampLimit(limit)))
    ELSE list_response("user", limit, fault)

list_users(limit, fault) == list_response("user", limit, fault)

list_products(limit, fault) == list_response("product", limit, fault)

\* main.py:133  the import of db succeeds (main.py:114 has loaded the module); the id
\* is checked before db is touched; db is None makes db.<kind> raise AttributeError,
\* which except PyMongoError does not catch, and neither does it catch HTTPException
get_response(kind, invalid, missing, id, fault) ==
    IF ~is_valid(id) THEN HTTPException(400, invalid, <<>>)
    ELSE IF conn = "absent" THEN Unhandled
    ELSE IF fault.cls = "PyMongoError" THEN HTTPException(500, "", fault.msg)
    ELSE IF fault.cls = "Exception" THEN Unhandled
    ELSE LET doc == find_one(kind, ObjectId(id))
         IN  IF DOMAIN doc = {}
             THEN HTTPException(404, missing, <<>>)
             ELSE Return(200, serialize_doc(doc))

\* variant: except Exception, which also catches the handler's own HTTPException
get_user_catch_all(user_id, fault) ==
    LET r == get_response("user", "Invalid user id", "User not found", user_id, fault)
    IN  IF r.status = 200 THEN r ELSE HTTPException(500, "", r.detail.msg)

get_user(user_id, fault) ==
    get_response("user", "Invalid user id", "User not found", user_id, fault)

\* variant: db.user.find_one in the product handler
get_product_in_users(product_id, fault) ==
    get_response("user", "Invalid product id", "Product not found", product_id, fault)

get_product(product_id, fault) ==
    get_response("product", "Invalid product id", "Product not found", product_id, fault)

(* ------------------------------- health ------------------------------- *)
\* a string of the report: a literal, followed by computed text
Lit(l) == [lit |-> l, val |-> <<>>]

Fmt(l, t) == [lit |-> l, val |-> t]

\* "Set" if os.getenv(...) else "Not Set"
SetMarker(e) == IF e.set /\ e.v # <<>> THEN Lit("Set") ELSE Lit("Not Set")

\* os.getenv(...) as a value of the report
Getenv(e) == IF e.set THEN Fmt("", e.v) ELSE Lit("None")

ColName(i) == <<99, 96 + i>>

\* what list_collection_names() returns: n names, in one of two orders
ColLists ==
    { [i \in 1..n |-> ColName(i)] : n \in 0..MaxColls } \cup
    { [i \in 1..n |-> ColName(n + 1 - i)] : n \in 0..MaxColls }

HealthMsgs == { Text(n) : n \in {ShortMsgLen, TruncLen, MaxMsgLen} }

\* what the health check meets: the outcome of the import, whether db has a name,
\* and the outcome of list_collection_names()
Probes ==
    [imp : {"ok"}, hasName : BOOLEAN, ok : {TRUE}, names : ColLists, msg : {<<>>}]
    \cup [imp : {"ok"}, hasName : BOOLEAN, ok : {FALSE}, names : {<<>>}, msg : HealthMsgs]
    \cup [imp : {"ImportError", "Exception"}, hasName : {FALSE}, ok : {FALSE},
          names : {<<>>}, msg : HealthMsgs]

NoProbe == [imp |-> "none", hasName |-> FALSE, ok |-> FALSE, names |-> <<>>, msg |-> <<>>]

DbName == <<97, 112, 112>>

\* main.py:56  the literals are written without their emoji prefix
Response0 ==
    [backend |-> Lit("Running"),
     database |-> Lit("Not Available"),
     database_url |-> Lit("None"),
     database_name |-> Lit("None"),
     connection_status |-> "Not Connected",
     collections |-> <<>>]

\* variant: db.list_collection_names(), not sliced
Collections_unsliced(names) == names

\* main.py:71  db.list_collection_names()[:10]
Collections(names) == Slice(names, MaxShown)

\* main.py:64-81  the try block and its except clauses
Probe(p) ==
    IF p.imp = "ImportError"
    THEN [Response0 EXCEPT !.database = Lit("Database module not found")]
    ELSE IF p.imp = "Exception"
    THEN [Response0 EXCEPT !.database = Fmt("Error: ", Slice(p.msg, TruncLen))]
    ELSE IF conn = "absent"
    THEN [Response0 EXCEPT !.database = Lit("Available but not initialized")]
    ELSE LET r == [Response0 EXCEPT
                      !.database = Lit("Available"),
                      !.database_url = SetMarker(env.url),
                      !.database_name = IF p.hasName THEN Fmt("", DbName)
                                        ELSE Getenv(env.name)]
         IN  IF p.ok
             THEN [r EXCEPT !.collections = Collections(p.names),
                            !.connection_status = "Connected",
                            !.database = Lit("Connected & Working")]
             ELSE [r EXCEPT !.database =
                       Fmt("Connected but Error: ", Slice(p.msg, TruncLen))]

\* variant: the legacy keys are not merged
Legacy_skipped(r) == r

\* main.py:84-88  response.update(legacy)
Legacy(r) ==
    [r EXCEPT !.database_url = SetMarker(env.url),
              !.database_name = SetMarker(env.name)]

\* variant: no except ImportError clause, so the handler raises
health_import_uncaught(p) ==
    IF p.imp = "ImportError"
    THEN [status |-> 500, body |-> Response0]
    ELSE [status |-> 200, body |-> Legacy(Probe(p))]

\* main.py:54  the handler returns, so the route answers 200
health(p) == [status |-> 200, body |-> Legacy(Probe(p))]

\* main.py:92
test_database(p) == health(p)

NoReport == [status |-> 0, body |-> Response0]

(* ------------------------------- actions ------------------------------ *)
Blank ==
    /\ store = [k \in Kinds |-> <<>>]
    /\ created = <<>>
    /\ req = NoReq
    /\ resp = NoResp
    /\ call = NoCall
    /\ probe = NoProbe
    /\ report = NoReport

\* the API after start-up: the handle is there or not, both collections empty
Init ==
    /\ conn \in {"absent", "present"}
    /\ env = NoEnv
    /\ Blank

\* a store call fails when there is no handle, and may fail when there is one
MayRaise(fault) == conn = "absent" => fault.cls # "none"

Post(kind, record, fault, o) ==
    /\ MayRaise(fault)
    /\ fault.cls = "none" => (Count < MaxDocs /\ o \notin Ids(kind))
    /\ req' = [NoReq EXCEPT !.op = "create", !.kind = kind, !.record = record,
                            !.fault = fault]
    /\ call' = [op |-> "create_document", kind |-> kind, limit |-> 0]
    /\ resp' = IF kind = "user" THEN create_user(fault, inserted_id(o))
                                ELSE create_product(fault, inserted_id(o))
    /\ store' = IF fault.cls = "none" THEN insert(kind, record, o) ELSE store
    /\ created' = IF resp'.status = 201
                  THEN Append(created, [kind |-> kind, id |-> resp'.doc["id"].v,
                                        record |-> record])
                  ELSE created
    /\ UNCHANGED <<conn, env, probe, report>>

\* the identifier is the store's choice when it inserts; a failed insert assigns none
PostUsers ==
    \E record \in UserRecords, fault \in Faults :
        \E o \in (IF fault.cls = "none" THEN OidPool ELSE {MkOid(1)}) :
            Post("user", record, fault, o)

PostProducts ==
    \E record \in ProductRecords, fault \in Faults :
        \E o \in (IF fault.cls = "none" THEN OidPool ELSE {MkOid(1)}) :
            Post("product", record, fault, o)

List(kind, given, q, fault) ==
    LET limit == IF given THEN q ELSE LimitDefault
    IN  /\ MayRaise(fault)
        /\ req' = [NoReq EXCEPT !.op = "list", !.kind = kind, !.given = given,
                                !.limit = limit, !.fault = fault]
        /\ call' = [op |-> "get_documents", kind |-> kind, limit |-> ClampLimit(limit)]
        /\ resp' = IF kind = "user" THEN list_users(limit, fault)
                                    ELSE list_products(limit, fault)
        /\ UNCHANGED <<conn, env, store, created, probe, report>>

GetUsers ==
    \/ \E q \in Limits, fault \in Faults : List("user", TRUE, q, fault)
    \/ \E fault \in Faults : List("user", FALSE, 0, fault)

GetProducts ==
    \/ \E q \in Limits, fault \in Faults : List("product", TRUE, q, fault)
    \/ \E fault \in Faults : List("product", FALSE, 0, fault)

Get(kind, id, fault) ==
    /\ MayRaise(fault)
    /\ req' = [NoReq EXCEPT !.op = "get", !.kind = kind, !.id = id, !.fault = fault]
    /\ call' = IF is_valid(id) /\ conn = "present"
               THEN [op |-> "find_one", kind |-> kind, limit |-> 0]
               ELSE NoCall
    /\ resp' = IF kind = "user" THEN get_user(id, fault) ELSE get_product(id, fault)
    /\ UNCHANGED <<conn, env, store, created, probe, report>>

GetUser == \E id \in IdStrings, fault \in Faults : Get("user", id, fault)

GetProduct == \E id \in IdStrings, fault \in Faults : Get("product", id, fault)

Next ==
    \/ PostUsers
    \/ PostProducts
    \/ GetUsers
    \/ GetProducts
    \/ GetUser
    \/ GetProduct

Spec == Init /\ [][Next]_vars

\* the health check, in every environment and connection state
InitHealth ==
    /\ conn \in {"absent", "present"}
    /\ env \in [url : EnvValues, name : EnvValues]
    /\ Blank

Health ==
    \E p \in Probes :
        /\ probe' = p
        /\ report' = health(p)
        /\ req' = [NoReq EXCEPT !.op = "health"]
        /\ UNCHANGED <<conn, env, store, created, resp, call>>

Test ==
    \E p \in Probes :
        /\ probe' = p
        /\ report' = test_database(p)
        /\ req' = [NoReq EXCEPT !.op = "test"]
        /\ UNCHANGED <<conn, env, store, created, resp, call>>

NextHealth ==
    \/ Health
    \/ Test

SpecHealth == InitHealth /\ [][NextHealth]_vars

\* serialize_doc on its own, over documents with and without "_id" and "id"
SerFields == {"_id", "id", "name", "email"}

SerValues(f) ==
    IF f = "_id" THEN { Oid(MkOid(1)), Oid(MkOid(255)) }
    ELSE { Str(<<65, 108>>), Str(Hex(MkOid(1))) }

SerDocs ==
    { d \in UNION { [D -> UNION { SerValues(f) : f \in SerFields }] : D \in SUBSET SerFields } :
        \A f \in DOMAIN d : d[f] \in SerValues(f) }

InitSer ==
    /\ conn = "present"
    /\ env = NoEnv
    /\ store = [k \in Kinds |-> <<>>]
    /\ created = <<>>
    /\ req \in { [NoReq EXCEPT !.op = "doc", !.record = d] : d \in SerDocs }
    /\ resp = NoResp
    /\ call = NoCall
    /\ probe = NoProbe
    /\ report = NoReport

Serialize ==
    /\ req.op = "doc"
    /\ req' = [req EXCEPT !.op = "serialize_doc"]
    /\ resp' = Return(0, serialize_doc(req.record))
    /\ UNCHANGED <<conn, env, store, created, call, probe, report>>

NextSer == Serialize

SpecSer == InitSer /\ [][NextSer]_vars

(* ------------------------------- claims ------------------------------- *)
Lower(s) == [i \in 1..Len(s) |-> IF s[i] \in 65..90 THEN s[i] + 32 ELSE s[i]]

\* the stored documents of a collection whose identifier has the given string form
Matching(kind, id) ==
    { i \in 1..Len(store[kind]) : Hex(store[kind][i]["_id"].v) = Lower(id) }

StoreFailed == conn = "absent" \/ req.fault.cls # "none"

Rest(doc) == [f \in DOMAIN doc \ {"id"} |-> doc[f]]

\* C1: GET by id answers 400 to a malformed id, else 500 when the store fails, else
\* 404 when no document of the collection has the id, else 200 with that document
\* serialized; a 400 or a 404 is never answered as a 500.
C1_GetById ==
    req.op = "get" =>
        IF req.id \in Malformed THEN resp.status = 400
        ELSE IF StoreFailed THEN resp.status = 500
        ELSE IF Matching(req.kind, req.id) = {} THEN resp.status = 404
        ELSE /\ resp.status = 200
             /\ \E i \in Matching(req.kind, req.id) :
                    resp.doc = serialize_doc(store[req.kind][i])

\* a well-formed id held only by the other collection is answered 404
C1_Witness ==
    /\ req.op = "get"
    /\ resp.status = 404
    /\ Matching(Other(req.kind), req.id) # {}

\* C2 as stated: for every document with "_id", the output has "id" = encode(_id),
\* has no "_id", and every other field of the document is in the output unchanged,
\* none added and none dropped.
C2_AsStated ==
    (req.op = "serialize_doc" /\ "_id" \in DOMAIN req.record) =>
        /\ "_id" \notin DOMAIN resp.doc
        /\ "id" \in DOMAIN resp.doc
        /\ resp.doc["id"].ty = "str"
        /\ ObjectId(resp.doc["id"].v) = req.record["_id"]
        /\ DOMAIN resp.doc = (DOMAIN req.record \ {"_id"}) \cup {"id"}
        /\ \A f \in DOMAIN req.record \ {"_id"} : resp.doc[f] = req.record[f]

\* C2 amended: for every document with "_id", the output has "id" = encode(_id) (24
\* lower-case hex digits that decode to _id), has no "_id", and every field of the
\* document other than "_id" and "id" is in the output unchanged; the output has no
\* further field. A field "id" the document already had is replaced.
C2_Serialize ==
    (req.op = "serialize_doc" /\ "_id" \in DOMAIN req.record) =>
        /\ "_id" \notin DOMAIN resp.doc
        /\ "id" \in DOMAIN resp.doc
        /\ resp.doc["id"].ty = "str"
        /\ is_valid(resp.doc["id"].v)
        /\ Lower(resp.doc["id"].v) = resp.doc["id"].v
        /\ ObjectId(resp.doc["id"].v) = req.record["_id"]
        /\ DOMAIN resp.doc = (DOMAIN req.record \ {"_id"}) \cup {"id"}
        /\ \A f \in DOMAIN req.record \ {"_id", "id"} : resp.doc[f] = req.record[f]

\* a document that has "_id", an "id" of its own and other fields has been serialized
C2_Witness ==
    /\ req.op = "serialize_doc"
    /\ {"_id", "id", "name"} \subseteq DOMAIN req.record
    /\ resp.doc["id"] # req.record["id"]
    /\ resp.doc["name"] = req.record["name"]

\* C3: the limit handed to get_documents is in [1, 200]: the query value when it is in
\* the range, 1 below it, 200 above it, and 50 when the query gives none.
C3_Clamp ==
    call.op = "get_documents" =>
        /\ call.limit \in 1..200
        /\ (req.limit \in 1..200) => call.limit = req.limit
        /\ req.limit < 1 => call.limit = 1
        /\ req.limit > 200 => call.limit = 200
        /\ ~req.given => call.limit = 50

\* a limit below 1 was asked for and 1 was passed
C3_Witness ==
    /\ req.op = "list"
    /\ req.given
    /\ req.limit < 1
    /\ call.op = "get_documents"
    /\ call.limit = 1

\* C5: POST answers 201 with {"id": external id of the new document} when the insert
\* succeeds and 500 with the error's message when it fails, and nothing else.
C5_Create ==
    req.op = "create" =>
        /\ resp.status \in {201, 500}
        /\ ~StoreFailed =>
              /\ resp.status = 201
              /\ DOMAIN resp.doc = {"id"}
              /\ Len(store[req.kind]) > 0
              /\ LET new == store[req.kind][Len(store[req.kind])]
                 IN  /\ resp.doc["id"] = Str(Hex(new["_id"].v))
                     /\ [f \in DOMAIN new \ {"_id"} |-> new[f]] = req.record
        /\ StoreFailed =>
              /\ resp.status = 500
              /\ resp.detail.msg = req.fault.msg
              /\ resp.detail.msg # <<>>

\* an insert has succeeded into a collection that already held a document
C5_Witness ==
    /\ req.op = "create"
    /\ resp.status = 201
    /\ Len(store[req.kind]) > 1

\* C6: on a working store, a GET by an id that a 201 POST to that collection returned
\* answers 200 with that id and exactly the record's fields; the ids returned by the
\* POSTs to one collection differ; a GET of such an id in the other collection does
\* not answer with that document (404, or the other collection's own document).
C6_CreateThenGet ==
    /\ \A i, j \in 1..Len(created) :
          (i # j /\ created[i].kind = created[j].kind) => created[i].id # created[j].id
    /\ (req.op = "get" /\ ~StoreFailed /\ \E i \in 1..Len(created) : created[i].id = req.id) =>
          LET mine == { i \in 1..Len(created) :
                           created[i].kind = req.kind /\ created[i].id = req.id }
          IN  IF mine = {} THEN resp.status = 404
              ELSE /\ resp.status = 200
                   /\ "id" \in DOMAIN resp.doc
                   /\ resp.doc["id"] = Str(req.id)
                   /\ \A i \in mine : Rest(resp.doc) = created[i].record

\* a created user is read back while a product holds the same id
C6_Witness ==
    /\ req.op = "get"
    /\ req.kind = "product"
    /\ resp.status = 200
    /\ \E i, j \in 1..Len(created) :
          /\ created[i].kind = "user"
          /\ created[j].kind = "product"
          /\ created[i].id = req.id
          /\ created[j].id = req.id

\* the handlers' store calls that can fail
StoreCall ==
    \/ req.op \in {"create", "list"}
    \/ req.op = "get" /\ req.id \notin Malformed

\* C7 as stated: a store failure in create, list or get-by-id is answered 5xx with a
\* truncated form of the error's message: a prefix of it of at most 100 characters.
C7_AsStated ==
    (StoreCall /\ req.fault.cls # "none") =>
        /\ resp.status \in 500..599
        /\ Len(resp.detail.msg) <= TruncLen
        /\ resp.detail.msg = Slice(req.fault.msg, Len(resp.detail.msg))

\* the failures the handler's except clause catches
Caught ==
    /\ req.fault.cls # "none"
    /\ \/ req.op = "create"
       \/ req.op = "list" /\ req.fault.cls = "PyMongoError"
       \/ req.op = "get" /\ req.fault.cls = "PyMongoError" /\ conn = "present"

\* C7 amended: a store failure in create, list or get-by-id is answered 500; when the
\* handler catches it the detail is the whole message of the error, not truncated,
\* and otherwise it is the framework's generic message.
C7_StoreErrors ==
    (StoreCall /\ StoreFailed) =>
        /\ resp.status = 500
        /\ Caught => (resp.detail.lit = "" /\ resp.detail.msg = req.fault.msg)
        /\ ~Caught => (resp.detail.lit = "Internal Server Error" /\ resp.detail.msg = <<>>)

\* a caught failure whose message is longer than 100 characters
C7_Witness ==
    /\ StoreCall
    /\ Caught
    /\ resp.status = 500
    /\ Len(resp.detail.msg) > TruncLen

\* C10: a successful list answers 200 with at most the clamped limit of documents,
\* all of them when the collection has no more than that, none when it is empty, and
\* each one the serialized form of a stored document of that collection.
C10_List ==
    (req.op = "list" /\ ~StoreFailed) =>
        LET n == Len(store[req.kind])
            lim == IF req.limit < 1 THEN 1 ELSE IF req.limit > 200 THEN 200 ELSE req.limit
        IN  /\ resp.status = 200
            /\ Len(resp.docs) <= lim
            /\ n <= lim => Len(resp.docs) = n
            /\ n = 0 => resp.docs = <<>>
            /\ \A i \in 1..Len(resp.docs) :
                  \E j \in 1..n :
                      /\ "_id" \notin DOMAIN resp.docs[i]
                      /\ resp.docs[i]["id"] = Str(Hex(store[req.kind][j]["_id"].v))
                      /\ Rest(resp.docs[i]) =
                            [f \in DOMAIN store[req.kind][j] \ {"_id"} |-> store[req.kind][j][f]]

\* a list that the limit cut short
C10_Witness ==
    /\ req.op = "list"
    /\ resp.status = 200
    /\ resp.docs # <<>>
    /\ Len(resp.docs) < Len(store[req.kind])

HealthAsked == req.op \in {"health", "test"}

\* C4: the health check answers 200 in every connection state, the state described by
\* the report's database field; unless the store answers, connection_status stays
\* "Not Connected", and an absent handle is reported as not initialized.
C4_HealthNeverRaises ==
    HealthAsked =>
        /\ report.status = 200
        /\ report.body.database.lit =
              (IF probe.imp = "ImportError" THEN "Database module not found"
               ELSE IF probe.imp = "Exception" THEN "Error: "
               ELSE IF conn = "absent" THEN "Available but not initialized"
               ELSE IF probe.ok THEN "Connected & Working"
               ELSE "Connected but Error: ")
        /\ (probe.imp # "ok" \/ conn = "absent" \/ ~probe.ok) =>
              /\ report.body.connection_status = "Not Connected"
              /\ report.body.collections = <<>>
        /\ probe.imp = "Exception" =>
              report.body.database.val = Slice(probe.msg, 100)

\* the import raised ImportError and the report says so
C4_Witness ==
    /\ HealthAsked
    /\ probe.imp = "ImportError"
    /\ report.status = 200
    /\ report.body.database.lit = "Database module not found"

\* C8: with a handle, a working list_collection_names() gives "Connected & Working",
\* "Connected" and the first min(10, n) names in the store's order; a failing one gives
\* "Connected but Error" with at most 100 characters of the message, no collections
\* and "Not Connected".
C8_Collections ==
    (HealthAsked /\ probe.imp = "ok" /\ conn = "present") =>
        IF probe.ok
        THEN /\ report.body.database.lit = "Connected & Working"
             /\ report.body.connection_status = "Connected"
             /\ Len(report.body.collections) = Min(10, Len(probe.names))
             /\ \A i \in 1..Len(report.body.collections) :
                    report.body.collections[i] = probe.names[i]
        ELSE /\ report.body.database.lit = "Connected but Error: "
             /\ Len(report.body.database.val) = Min(100, Len(probe.msg))
             /\ \A i \in 1..Len(report.body.database.val) :
                    report.body.database.val[i] = probe.msg[i]
             /\ report.body.collections = <<>>
             /\ report.body.connection_status = "Not Connected"

\* the store returned more than ten names, not in sorted order
C8_Witness ==
    /\ HealthAsked
    /\ probe.ok
    /\ conn = "present"
    /\ Len(probe.names) > 10
    /\ probe.names[1] # ColName(1)
    /\ Len(report.body.collections) = 10

\* C9: database_url and database_name of the report depend on the environment only:
\* each is "Set" exactly when its variable is present and not empty, whatever the
\* connection state.
C9_EnvOnly ==
    HealthAsked =>
        /\ report.body.database_url =
              Lit(IF env.url.set /\ Len(env.url.v) > 0 THEN "Set" ELSE "Not Set")
        /\ report.body.database_name =
              Lit(IF env.name.set /\ Len(env.name.v) > 0 THEN "Set" ELSE "Not Set")

\* a handle that exposes a name, with DATABASE_NAME unset
C9_Witness ==
    /\ HealthAsked
    /\ conn = "present"
    /\ probe.imp = "ok"
    /\ probe.hasName
    /\ ~env.name.set
    /\ report.body.database_name = Lit("Not Set")

====
